---- MODULE Spec2Model ----
(***************************************************************************)
(* pmc_0d_model2b: bulk-equilibrium ice properties of a vertical profile,  *)
(* the frost point of every level and the summary of the ice layer.        *)
(*                                                                         *)
(* Arithmetic.  The routine computes in floating point; the model computes *)
(* in whole numbers of the following fixed-point units, chosen so that the *)
(* unit conversions 1e6 (line 106), 1e-6 (line 128) and 1e2*1e-6 (line     *)
(* 116) are exact changes of unit:                                         *)
(*     z                      km                                           *)
(*     t, t_ice, tx           K                                            *)
(*     p                      1e-4 mb                                      *)
(*     h2o, h2o_sat, h2o_ice  0.1 ppmv                                     *)
(*     px, p_ice, p_h2o       1e-11 mb                                     *)
(*     s_ice                  percent                                      *)
(*     n_xs                   1e-11 mol/m3                                 *)
(*     m_ice                  ng/m3                                        *)
(*     v_ice                  1e-5 um3/cm3                                 *)
(*     dz                     half km;  iwc  ng/m3 * half km               *)
(* A quotient is rounded down.  Division by zero gives Inf or NaN as numpy *)
(* does for float64 (a warning, no exception).                             *)
(*                                                                         *)
(* Operators.  The source joins its comparisons with & and |.  In Python   *)
(* these bind tighter than the comparisons, and the comparisons that       *)
(* remain form one chain: a > b & c < d reads a > (b & c) < d.  The model  *)
(* evaluates every such condition exactly as that grammar reads it, with & *)
(* and | the bitwise operators on the whole-number values, element by      *)
(* element.  (On float64 operands numpy's & raises TypeError instead; the  *)
(* whole-number reading is the one under which the routine runs at all.)   *)
(*                                                                         *)
(* Names.  Python distinguishes Zmax (line 79) from zmax (line 176); both  *)
(* are variables of the model.  constdz is the optional keyword of the     *)
(* routine's signature (line 47).                                          *)
(***************************************************************************)
EXTENDS Integers, Sequences, FiniteSets, TLC

\* Number of levels of the profile.
NZ == 3
\* The window of the 300-entry table tx, px that the model holds: entries
\* TabLo .. TabLo+NTab-1, whose pressures the fixed-point unit can represent.
TabLo == 30
NTab == 4

Levels == 0 .. (NZ - 1)

\* float64 values that are not numbers, and the value of a name not yet bound.
Inf == 2000000001
NegInf == -2000000001
NaN == -2000000002
Unset == -2000000003

Abs(x) == IF x < 0 THEN -x ELSE x

SetMax(S) == CHOOSE x \in S : \A y \in S : y <= x

SetMin(S) == CHOOSE x \in S : \A y \in S : x <= y

\* Python's a & b on integers (two's complement, unbounded).
RECURSIVE BitAnd(_, _)
BitAnd(a, b) ==
    IF a = 0 \/ b = 0 THEN 0
    ELSE IF a = -1 THEN b
    ELSE IF b = -1 THEN a
    ELSE (a % 2) * (b % 2) + 2 * BitAnd(a \div 2, b \div 2)

\* Python's a | b on integers (two's complement, unbounded).
RECURSIVE BitOr(_, _)
BitOr(a, b) ==
    IF a = 0 THEN b
    ELSE IF b = 0 THEN a
    ELSE IF a = -1 \/ b = -1 THEN -1
    ELSE (IF a % 2 = 1 \/ b % 2 = 1 THEN 1 ELSE 0) + 2 * BitOr(a \div 2, b \div 2)

\* float64 division a / b of non-negative operands, rounded down.
FDiv(a, b) ==
    IF a = NaN \/ b = NaN THEN NaN
    ELSE IF b = Inf THEN (IF a = Inf THEN NaN ELSE 0)
    ELSE IF b = 0 THEN (IF a = 0 THEN NaN ELSE Inf)
    ELSE IF a = Inf THEN Inf
    ELSE a \div b

\* float64 subtraction a - b of a finite a.
FSub(a, b) ==
    IF b = NaN THEN NaN
    ELSE IF b = Inf THEN NegInf
    ELSE a - b

\* x > 0.0 in float64: false of NaN.
FPos(x) == x # NaN /\ x # NegInf /\ x > 0

\* ---------------------------------------------------------------- inputs

\* Altitudes a profile is drawn from (km): the band's two ends and levels
\* inside it, unequally spaced.
ZSet == {80, 83, 84, 86, 95}

\* <<t, p, h2o>> of one level.  With option 1:
\*   <<0, 50, 80>>     no temperature
\*   <<140, 0, 80>>    no pressure
\*   <<149, 50, 30>>   below saturation
\*   <<149, 50, 93>>   exactly saturated; p_h2o is the table's entry at 149 K
\*   <<140, 50, 36>>   m_ice = 23
\*   <<140, 100, 60>>  m_ice = 88
\*   <<140, 100, 63>>  m_ice = 92
LevelSet ==
    { <<0, 50, 80>>, <<140, 0, 80>>, <<149, 50, 30>>, <<149, 50, 93>>,
      <<140, 50, 36>>, <<140, 100, 60>>, <<140, 100, 63>> }

VpopSet == {-2, -1, 0, 1, 2, 3, 4, 5}

\* constdz: <<>> is None, <<d>> a value.
ConstdzSet == {<<>>, <<1>>}

\* ------------------------------------------------- saturation curve

\* 0.01*exp(9.550426 - 5723.265/T + 3.53068*ln(T) - 0.00728332*T), T = 140..159 K
MurphyKoop ==
    <<337, 458, 621, 838, 1126, 1507, 2009, 2667, 3528, 4650, 6106, 7989,
      10417, 13537, 17533, 22633, 29124, 37357, 47769, 60897>>

\* 0.01*10^(14.88 - 3059.0/T), T = 140..159 K
MauersbergerKrankowsky ==
    <<107, 153, 217, 307, 433, 607, 847, 1176, 1625, 2237, 3066, 4185,
      5688, 7700, 10383, 13948, 18664, 24884, 33055, 43752>>

\* 0.01*exp(28.868 - 6132.935/T), T = 140..159 K
MartiMauersberger ==
    <<325, 443, 602, 815, 1098, 1473, 1968, 2619, 3472, 4585, 6033, 7909,
      10332, 13449, 17448, 22560, 29073, 37346, 47821, 61043>>

\* First temperature of the three tabulations above.
SatT0 == 140

\* Saturation vapor pressure over ice at T for option v in 1..3.
PSat(v, T) ==
    CASE v = 1 -> MurphyKoop[T - SatT0 + 1]
      [] v = 2 -> MauersbergerKrankowsky[T - SatT0 + 1]
      [] v = 3 -> MartiMauersberger[T - SatT0 + 1]

TabIdx == 0 .. (NTab - 1)

\* tx = numpy.arange(300) * 3. + 50., entries TabLo .. TabLo+NTab-1.
Tx == [j \in TabIdx |-> (TabLo + j) * 3 + 50]

\* px as the three ifs of lines 88-90 leave it: unbound (<<>>) when none fires.
PxOf(v) == IF v \in {1, 2, 3} THEN [j \in TabIdx |-> PSat(v, Tx[j])] ELSE <<>>

\* vpop < 1 | vpop > 3, which reads vpop < (1 | vpop) > 3.
VpopRejected(v) ==
    LET m == BitOr(1, v)
    IN  v < m /\ m > 3

\* ------------------------------------------------------- constants

\* Mww = 18.0, molecular weight of h2o, g/mol.
Mww == 18
\* di = 0.93, density of ice, g/cm3, in hundredths.
Di100 == 93
\* R = 8.314 J/mol/K, in thousandths.
R1000 == 8314

\* ------------------------------------------------------------ state

VARIABLES
    z, t, p, h2o, vpop, constdz,
    pc, err,
    t_ice, p_ice, s_ice, v_ice, m_ice, h2o_sat, h2o_ice,
    Zmax, Ztop, Zbot, iwc,
    px, i, q_xs, p_h2o, p1, t1, p2, t2,
    k, zmax, ztop, zbot, dz, ik, zreads

inputs == <<z, t, p, h2o, vpop, constdz>>
arrays == <<t_ice, p_ice, s_ice, v_ice, m_ice, h2o_sat, h2o_ice>>
summary == <<Zmax, Ztop, Zbot, iwc>>
frost == <<q_xs, p_h2o, p1, t1, p2, t2>>
layer == <<k, zmax, ztop, zbot, dz, ik, zreads>>
vars == <<inputs, pc, err, arrays, summary, px, i, frost, layer>>

\* The routine is entered with its arguments bound and nothing else.
Init ==
    /\ z \in {f \in [Levels -> ZSet] : \A a, b \in Levels : a < b => f[a] < f[b]}
    /\ \E lev \in [Levels -> LevelSet] :
          /\ t = [j \in Levels |-> lev[j][1]]
          /\ p = [j \in Levels |-> lev[j][2]]
          /\ h2o = [j \in Levels |-> lev[j][3]]
    /\ vpop \in VpopSet
    /\ constdz \in ConstdzSet
    /\ pc = "start"
    /\ err = ""
    /\ t_ice = <<>> /\ p_ice = <<>> /\ s_ice = <<>> /\ v_ice = <<>>
    /\ m_ice = <<>> /\ h2o_sat = <<>> /\ h2o_ice = <<>>
    /\ Zmax = Unset /\ Ztop = Unset /\ Zbot = Unset /\ iwc = Unset
    /\ px = <<>>
    /\ i = Unset
    /\ q_xs = Unset /\ p_h2o = Unset
    /\ p1 = Unset /\ t1 = Unset /\ p2 = Unset /\ t2 = Unset
    /\ k = <<>>
    /\ zmax = Unset /\ ztop = Unset /\ zbot = Unset /\ dz = Unset
    /\ ik = Unset
    /\ zreads = {}

\* ------------------------------------------------------ housekeeping

\* Lines 67-69: the option is found invalid; print and exit().
Reject ==
    /\ pc = "start"
    /\ VpopRejected(vpop)
    /\ pc' = "rejected"
    /\ UNCHANGED <<inputs, err, arrays, summary, px, i, frost, layer>>

\* numpy.zeroes(nz) + c
Filled(c) == [j \in Levels |-> c]

\* The default of h2o_sat (line 76).
H2oSatDefault == 999

\* Lines 71-90: the output arrays, the summary scalars, the table.
Allocate ==
    /\ pc = "start"
    /\ ~VpopRejected(vpop)
    /\ t_ice' = Filled(0)
    /\ p_ice' = Filled(0)
    /\ s_ice' = Filled(0)
    /\ v_ice' = Filled(0)
    /\ m_ice' = Filled(0)
    /\ h2o_sat' = Filled(H2oSatDefault)
    /\ h2o_ice' = Filled(0)
    /\ Zmax' = 0 /\ Ztop' = 0 /\ Zbot' = 0 /\ iwc' = 0
    /\ px' = PxOf(vpop)
    /\ i' = 0
    /\ pc' = "loop"
    /\ UNCHANGED <<inputs, err, frost, layer>>

\* ------------------------------------------------- one altitude level

\* Lines 100-102: p_ice[i] keeps its 0 when none of the three ifs fires.
PIceAt(v, T) == IF v \in {1, 2, 3} THEN PSat(v, T) ELSE 0

\* H2oSatAt with a zero pressure answered by 0.
H2oSatZeroed(pice, pp) == IF pp = 0 THEN 0 ELSE pice \div pp

\* Line 106: h2o_sat[i] = 1.0e6 * p_ice[i] / p[i].
H2oSatAt(pice, pp) == FDiv(pice, pp)

\* Line 108: s_ice[i] = h2o[i] / h2o_sat[i].
SIceAt(h, hs) == IF hs = Inf \/ hs = NaN THEN FDiv(h, hs) ELSE FDiv(100 * h, hs)

\* QxsAt with the operands of line 112 exchanged.
QxsSwapped(h, hs) == FSub(hs, h)

\* Line 112: q_xs = h2o[i] - h2o_sat[i].
QxsAt(h, hs) == FSub(h, hs)

\* Line 116: n_xs = p[i] * 1.0e2 * q_xs * 1.0e-6 / (R * t[i]).
NxsAt(pp, q, T) == (pp * q * 100000) \div (R1000 * T)

\* Line 118: v_ice[i] = 1.0e6 * n_xs * Mww / di.
VIceAt(n) == (n * Mww * 100) \div Di100

\* Line 119: m_ice[i] = 1e9 * n_xs * Mww.
MIceAt(n) == (n * Mww) \div 100

\* Line 128: p_h2o = p[i] * h2o[i] * 1.0e-6.
PH2oAt(pp, h) == pp * h

\* Lines 135-137: k = (px < p_h2o).nonzero()[0], as the set of its indices.
Below(tab, ph) == {j \in DOMAIN tab : tab[j] < ph}

\* Lines 143-145: k = (px >= p_h2o).nonzero()[0], as the set of its indices.
AtOrAbove(tab, ph) == {j \in DOMAIN tab : tab[j] >= ph}

\* Lines 138-140: k[n-1], the last index below.
LowerIdx(tab, ph) == SetMax(Below(tab, ph))

\* Lines 146-148: k[0], the first index at or above.
UpperIdx(tab, ph) == SetMin(AtOrAbove(tab, ph))

TabMin(tab) == SetMin({tab[j] : j \in DOMAIN tab})

TabMax(tab) == SetMax({tab[j] : j \in DOMAIN tab})

\* Line 151: p_h2o >= min(px) & p_h2o <= max(px) & p1 > 0 & p2 > 0, which reads
\* p_h2o >= (min(px) & p_h2o) <= (max(px) & p1) > (0 & p2) > 0.
FrostGuard(tab, ph, lo, hi) ==
    LET a == BitAnd(TabMin(tab), ph)
        b == BitAnd(TabMax(tab), lo)
        c == BitAnd(0, hi)
    IN  ph >= a /\ a <= b /\ b > c /\ c > 0

RECURSIVE Pow10(_)
Pow10(n) == IF n = 0 THEN 1 ELSE 10 * Pow10(n - 1)

RECURSIVE ILog10(_)
ILog10(x) == IF x < 10 THEN 0 ELSE 1 + ILog10(x \div 10)

\* The fraction of log10 of m/1000, m in 1000..9999, to n binary places.
RECURSIVE LogFrac(_, _)
LogFrac(m, n) ==
    IF n = 0 THEN 0
    ELSE LET s == (m * m) \div 1000
         IN  IF s >= 10000 THEN 2 ^ (n - 1) + LogFrac(s \div 10, n - 1)
             ELSE LogFrac(s, n - 1)

\* numpy.log10(x) of x >= 1, in 1/1024.
Log10(x) == 1024 * ILog10(x) + LogFrac((x * 1000) \div Pow10(ILog10(x)), 10)

\* Lines 153-155: dsds = (log10(p2) - log10(p_h2o)) / (log10(p2) - log10(p1)),
\* t_ice[i] = 1 / (1/t2 - dsds * (1/t2 - 1/t1)), which is
\* t1*t2 / (t1 + dsds * (t2 - t1)).
FrostPoint(ph, lo, tlo, hi, thi) ==
    LET num == Log10(hi) - Log10(ph)
        den == Log10(hi) - Log10(lo)
    IN  IF den = 0 THEN NaN
        ELSE (tlo * thi * den) \div (tlo * den + num * (thi - tlo))

\* Lines 94-155, one pass of the loop over altitude.
Level ==
    /\ pc = "loop"
    /\ i \in Levels
    /\ LET T == t[i]
           pice == PIceAt(vpop, T)
           hs == H2oSatAt(pice, p[i])
           q == QxsAt(h2o[i], hs)
           n == NxsAt(p[i], q, T)
           ph == PH2oAt(p[i], h2o[i])
           bound == px # <<>>
           lo == IF bound /\ Below(px, ph) # {} THEN px[LowerIdx(px, ph)] ELSE 0
           tlo == IF bound /\ Below(px, ph) # {} THEN Tx[LowerIdx(px, ph)] ELSE 0
           hi == IF bound /\ AtOrAbove(px, ph) # {} THEN px[UpperIdx(px, ph)] ELSE 0
           thi == IF bound /\ AtOrAbove(px, ph) # {} THEN Tx[UpperIdx(px, ph)] ELSE 0
       IN  IF T > 0
           THEN /\ p_ice' = [p_ice EXCEPT ![i] = pice]
                /\ h2o_sat' = [h2o_sat EXCEPT ![i] = hs]
                /\ s_ice' = [s_ice EXCEPT ![i] = SIceAt(h2o[i], hs)]
                /\ q_xs' = q
                /\ v_ice' = IF FPos(q) THEN [v_ice EXCEPT ![i] = VIceAt(n)] ELSE v_ice
                /\ m_ice' = IF FPos(q) THEN [m_ice EXCEPT ![i] = MIceAt(n)] ELSE m_ice
                /\ h2o_ice' = IF FPos(q) THEN [h2o_ice EXCEPT ![i] = q] ELSE h2o_ice
                /\ p_h2o' = ph
                /\ p1' = lo /\ t1' = tlo /\ p2' = hi /\ t2' = thi
                /\ IF bound
                   THEN /\ t_ice' = IF FrostGuard(px, ph, lo, hi)
                                    THEN [t_ice EXCEPT ![i] = FrostPoint(ph, lo, tlo, hi, thi)]
                                    ELSE t_ice
                        /\ i' = i + 1
                        /\ pc' = IF i + 1 = NZ THEN "summary" ELSE "loop"
                        /\ err' = err
                   ELSE \* line 135 reads px, which no line has bound: NameError
                        /\ t_ice' = t_ice
                        /\ i' = i
                        /\ pc' = "error"
                        /\ err' = "NameError"
           ELSE /\ i' = i + 1
                /\ pc' = IF i + 1 = NZ THEN "summary" ELSE "loop"
                /\ UNCHANGED <<err, arrays, frost>>
    /\ UNCHANGED <<inputs, summary, px, layer>>

\* ---------------------------------------------------- layer summary

\* The band of line 165 (km) and the window below the peak of line 183 (km).
BandLo == 80
BandHi == 95
Window == 2
\* dz is counted in half km: the factor 0.5 of line 184.
DzScale == 2

\* Line 165 at one level: z > 80 & z < 95 & m_ice > 0., which reads
\* z > (80 & z) < (95 & m_ice) > 0.
LayerPred(zz, mm) ==
    LET a == BitAnd(BandLo, zz)
        b == BitAnd(BandHi, mm)
    IN  zz > a /\ a < b /\ b > 0

\* The members of a set of indices in increasing order, as nonzero() gives them.
RECURSIVE Ascending(_)
Ascending(S) ==
    IF S = {} THEN <<>>
    ELSE <<SetMin(S)>> \o Ascending(S \ {SetMin(S)})

\* Lines 165-166: k; k[n] of the source is LayerIdx[n + 1].
LayerIdx == Ascending({j \in Levels : LayerPred(z[j], m_ice[j])})

Range(s) == {s[n] : n \in DOMAIN s}

\* Lines 171-173: the first index of k whose m_ice is max(m_ice[k]).
PeakIdx(kk) ==
    LET top == SetMax({m_ice[j] : j \in Range(kk)})
    IN  kk[SetMin({n \in DOMAIN kk : m_ice[kk[n]] = top})]

\* Lines 165-180: the layer's levels, its peak, top and bottom, the fixed spacing.
Select ==
    /\ pc = "summary"
    /\ k' = LayerIdx
    /\ IF Len(LayerIdx) > 0
       THEN /\ zmax' = z[PeakIdx(LayerIdx)]
            /\ ztop' = SetMax({z[j] : j \in Range(LayerIdx)})
            /\ zbot' = SetMin({z[j] : j \in Range(LayerIdx)})
            /\ dz' = IF constdz = <<>> THEN DzScale * Abs(z[1] - z[0]) ELSE dz
            /\ ik' = 0
            /\ pc' = "integrate"
       ELSE /\ pc' = "done"
            /\ UNCHANGED <<zmax, ztop, zbot, dz, ik>>
    /\ UNCHANGED <<inputs, err, arrays, summary, px, i, frost, zreads>>

\* z[j] for a j that may be -1: Python counts a negative index from the end.
PyIndex(j) == IF j < 0 THEN j + NZ ELSE j

\* Lines 182-185, one pass of the loop over k.
Integrate ==
    /\ pc = "integrate"
    /\ ik < Len(k)
    /\ LET j == k[ik + 1]
           up == j + 1
           down == j - 1
           next == IF ik + 1 = Len(k) THEN "done" ELSE "integrate"
       IN  IF z[j] > zmax - Window
           THEN IF constdz # <<>>
                THEN IF up \in Levels
                     THEN /\ dz' = Abs(z[up] - z[PyIndex(down)])
                          /\ iwc' = iwc + m_ice[j] * dz'
                          /\ zreads' = zreads \cup {up, down}
                          /\ ik' = ik + 1
                          /\ pc' = next
                          /\ err' = err
                     ELSE \* z[k[i]+1] is past the end: IndexError
                          /\ zreads' = zreads \cup {up}
                          /\ pc' = "error"
                          /\ err' = "IndexError"
                          /\ UNCHANGED <<dz, iwc, ik>>
                ELSE /\ iwc' = iwc + m_ice[j] * dz
                     /\ ik' = ik + 1
                     /\ pc' = next
                     /\ UNCHANGED <<dz, zreads, err>>
           ELSE /\ ik' = ik + 1
                /\ pc' = next
                /\ UNCHANGED <<dz, iwc, zreads, err>>
    /\ UNCHANGED <<inputs, arrays, Zmax, Ztop, Zbot, px, i, frost, k, zmax, ztop, zbot>>

\* -------------------------------------------------------- the routine

Next == Reject \/ Allocate \/ Level \/ Select \/ Integrate

Spec == Init /\ [][Next]_vars

\* ------------------------------------------------------- properties

\* The arrays exist: lines 71-77 have run.
Allocated == pc \notin {"start", "rejected"}

\* Level j has been passed by the loop over altitude.
Passed(j) == Allocated /\ j < i

\* Level j has been passed and line 96 let it in.
Evaluated(j) == Passed(j) /\ t[j] > 0

\* The layer as section 4.4 defines it: all three conditions, strict bounds.
SpecK == {j \in Levels : BandLo < z[j] /\ z[j] < BandHi /\ m_ice[j] > 0}

\* The first level of S, in profile order, with the largest m_ice.
SpecPeak(S) ==
    SetMin({j \in S : \A x \in S : m_ice[x] <= m_ice[j]})

RECURSIVE Sum(_, _)
Sum(f, S) ==
    IF S = {} THEN 0
    ELSE LET x == CHOOSE y \in S : TRUE
         IN  f[x] + Sum(f, S \ {x})

\* The centered spacing at level j in half km, one-sided at the two ends.
CenteredDz(j) ==
    IF j = 0 THEN DzScale * Abs(z[1] - z[0])
    ELSE IF j = NZ - 1 THEN DzScale * Abs(z[j] - z[j - 1])
    ELSE Abs(z[j + 1] - z[j - 1])

\* The spacing between the first two samples, in half km.
FirstDz == DzScale * Abs(z[1] - z[0])

\* The levels the loop of lines 182-185 adds to iwc.
Integrated == {j \in Range(k) : z[j] > zmax - Window}

\* C1: every option outside {1,2,3} is rejected before any array is
\* allocated or any level evaluated, and no option in {1,2,3} is rejected.
C1_InvalidOptionRejected ==
    /\ vpop \notin {1, 2, 3} => pc \in {"start", "rejected"}
    /\ vpop \in {1, 2, 3} => pc # "rejected"

C3_LayerSelection ==
    /\ pc \in {"integrate", "done", "error"} /\ i = NZ => Range(k) = SpecK
    /\ (pc = "done" /\ SpecK = {}) =>
          Zmax = 0 /\ Ztop = 0 /\ Zbot = 0 /\ iwc = 0

\* C4: a level whose h2o does not exceed h2o_sat has no ice (m_ice, v_ice,
\* h2o_ice all 0), ice is non-zero only where h2o exceeds h2o_sat, and a
\* profile without any such level ends with no layer (lines 176-178 never
\* run) and a summary of zeros.
C4_NoExcessNoIce ==
    Allocated =>
        /\ \A j \in Levels :
              /\ (Evaluated(j) /\ h2o[j] <= h2o_sat[j]) =>
                    m_ice[j] = 0 /\ v_ice[j] = 0 /\ h2o_ice[j] = 0
              /\ (m_ice[j] # 0 \/ v_ice[j] # 0 \/ h2o_ice[j] # 0) =>
                    t[j] > 0 /\ h2o_sat[j] # NaN /\ h2o[j] > h2o_sat[j]
        /\ (pc = "done" /\ \A j \in Levels : t[j] > 0 => h2o[j] <= h2o_sat[j]) =>
              /\ k = <<>>
              /\ zmax = Unset /\ ztop = Unset /\ zbot = Unset
              /\ Zmax = 0 /\ Ztop = 0 /\ Zbot = 0 /\ iwc = 0

\* C4's case: a finished call over a profile inside the band whose evaluated
\* levels are all at or below saturation, one of them exactly at it.
C4_Witness ==
    /\ pc = "done"
    /\ \A j \in Levels : t[j] > 0 => h2o[j] <= h2o_sat[j]
    /\ \E j \in Levels : t[j] > 0 /\ h2o[j] = h2o_sat[j] /\ BandLo < z[j] /\ z[j] < BandHi
    /\ \E j \in Levels : t[j] > 0 /\ h2o[j] < h2o_sat[j] /\ h2o_sat[j] # Inf

\* C5: without constdz every integrated level is weighted by its own centered
\* spacing; with constdz all are weighted by one constant spacing.
C5_SpacingMode ==
    pc = "done" =>
        /\ (constdz = <<>> /\ k # <<>>) =>
              iwc = Sum([j \in Levels |-> m_ice[j] * CenteredDz(j)], Integrated)
        /\ (constdz # <<>> /\ k # <<>>) =>
              \/ iwc = Sum([j \in Levels |-> m_ice[j] * FirstDz], Integrated)
              \/ iwc = Sum([j \in Levels |-> m_ice[j] * DzScale * constdz[1]], Integrated)

\* C6: every index of z read for dz is one of 0..nz-1, and the call does not
\* fail in the column integration.
C6_SpacingIndexInRange ==
    /\ zreads \subseteq Levels
    /\ err # "IndexError"

\* C7: an evaluated level whose vapor pressure is exactly a table pressure
\* px[j] gets t_ice = tx[j].
C7_AnchorRoundTrip ==
    \A a \in Levels :
        (Evaluated(a) /\ px # <<>>) =>
            \A j \in TabIdx : px[j] = p[a] * h2o[a] => t_ice[a] = Tx[j]

\* zm, zt, zb are the peak, top and bottom of the layer of section 4.4.
IsLayerSummary(zm, zt, zb) ==
    /\ zm = z[SpecPeak(SpecK)]
    /\ zt = SetMax({z[j] : j \in SpecK})
    /\ zb = SetMin({z[j] : j \in SpecK})
    /\ zb <= zm /\ zm <= zt
    /\ BandLo < zb /\ zt < BandHi

\* C8: with a non-empty layer, z_max is the altitude of the first level of the
\* layer with the largest m_ice, z_top and z_bot the largest and smallest
\* altitude of the layer, and all three lie strictly between 80 and 95.
\* Stated of the outputs Zmax, Ztop, Zbot or else of zmax, ztop, zbot.
C8_PeakTopBottom ==
    (pc = "done" /\ SpecK # {}) =>
        \/ IsLayerSummary(Zmax, Ztop, Zbot)
        \/ IsLayerSummary(zmax, ztop, zbot)

\* C9: iwc is the sum of m_ice*dz over exactly the levels of the layer
\* (80 < z < 95, m_ice > 0) above z_max - 2, so a detected layer has iwc > 0.
C9_ColumnWindow ==
    (pc = "done" /\ SpecK # {}) =>
        LET peak == z[SpecPeak(SpecK)]
            part == {j \in SpecK : z[j] > peak - Window}
            w == [j \in Levels |-> IF constdz = <<>> THEN FirstDz ELSE CenteredDz(j)]
        IN  /\ iwc = Sum([j \in Levels |-> m_ice[j] * w[j]], part)
            /\ iwc > 0

\* For the level just evaluated, p1 and p2 are the table's neighbours of
\* p_h2o: the largest pressure below it and the smallest at or above it, 0
\* when there is none; when both exist they are adjacent entries.
BracketTight ==
    (pc \in {"loop", "summary"} /\ i > 0 /\ t[i - 1] > 0 /\ px # <<>>) =>
        /\ p1 = (IF Below(px, p_h2o) = {} THEN 0
                 ELSE SetMax({px[j] : j \in Below(px, p_h2o)}))
        /\ p2 = (IF AtOrAbove(px, p_h2o) = {} THEN 0
                 ELSE SetMin({px[j] : j \in AtOrAbove(px, p_h2o)}))
        /\ (p1 > 0 /\ p2 > 0) =>
              /\ p1 < p_h2o /\ p_h2o <= p2
              /\ \E j \in TabIdx : j + 1 \in TabIdx /\ px[j] = p1 /\ px[j + 1] = p2
                                   /\ t1 = Tx[j] /\ t2 = Tx[j + 1]

\* C10: for the level just evaluated the bracket is the tightest one, and
\* t_ice is interpolated exactly when both bounds exist, are positive and
\* p_h2o is within the table; otherwise it stays 0.
C10_BracketAndGuard ==
    /\ BracketTight
    /\ (pc \in {"loop", "summary"} /\ i > 0 /\ t[i - 1] > 0 /\ px # <<>>) =>
          (t_ice[i - 1] # 0 <=>
              (p_h2o >= TabMin(px) /\ p_h2o <= TabMax(px) /\ p1 > 0 /\ p2 > 0))

\* What lines 169-185 compute from the levels k that line 165 selected: the
\* peak, top and bottom of k, and the column over the levels of k above
\* zmax - 2, each weighted by the dz in force.
SummaryOfSelected ==
    (pc = "done" /\ k # <<>>) =>
        /\ zmax = z[SpecPeak(Range(k))]
        /\ ztop = SetMax({z[j] : j \in Range(k)})
        /\ zbot = SetMin({z[j] : j \in Range(k)})
        /\ iwc = Sum([j \in Levels |->
                        m_ice[j] * (IF constdz = <<>> THEN FirstDz
                                    ELSE Abs(z[j + 1] - z[PyIndex(j - 1)]))],
                     Integrated)

====
